---- MODULE Spec2Model ----
(***************************************************************************)
(* Model of the cppcheck adapter, src/client/tool/cppcheck.py.             *)
(*                                                                         *)
(* One invocation of Cppcheck.analyze is followed from the selection of    *)
(* the files to scan, through the two blocking subprocess calls            *)
(* (`cppcheck --errorlist` and the scan itself), to the parsing of the raw *)
(* result file.  Text is kept as text: paths, raw output lines and the     *)
(* locale preamble are strings, and split / startswith / endswith / find / *)
(* int are computed character by character as Python computes them.       *)
(*                                                                         *)
(* Host assumptions: a POSIX host (os.sep = "/", sys.platform # "win32",   *)
(* so the gbk transcoding branch of _run_cppcheck is not taken), and       *)
(* CPPCHECK_HOME is set.  The custom --rule-file / --library flags do not  *)
(* depend on the request and are left out of the command record.           *)
(***************************************************************************)
EXTENDS Integers, Sequences, FiniteSets, TLC

VARIABLES
    pc,               \* position of analyze
    params_rules,     \* params["rules"], as a set of rule ids
    incr_scan,        \* params["incr_scan"]
    scm,              \* what SCMMgr(params).get_scm_diff() returns on this host
    diffs,            \* local `diffs` of analyze
    toscans,          \* local `toscans` of analyze
    paths_txt,        \* content of work_dir/paths.txt
    return_code,      \* exit code of the --errorlist call
    id_severity_map,  \* local `id_severity_map` of analyze
    rules,            \* local `rules` of analyze (rebound by the negotiation)
    procs,            \* subprocesses started so far, in order
    cmd,              \* flags of the scan command line
    result_exists,    \* os.path.exists("cppcheck_result.xml")
    result_content,   \* content of cppcheck_result.xml
    written,          \* number of lines the scan has written
    scan_result,      \* local `scan_result` of _run_cppcheck
    parser_calls,     \* number of calls of _format_result
    parser_read,      \* what _format_result read from the result file
    ret,              \* value returned by analyze
    err               \* exception that left analyze

vars == <<pc, params_rules, incr_scan, scm, diffs, toscans, paths_txt,
          return_code, id_severity_map, rules, procs, cmd, result_exists,
          result_content, written, scan_result, parser_calls, parser_read,
          ret, err>>

(***************************************************************************)
(* Bounds                                                                  *)
(***************************************************************************)
MaxLines == 2       \* lines the scan writes to the result file
MaxDiffs == 2       \* entries of an SCM diff
MaxRequested == 2   \* rules a caller requests

(***************************************************************************)
(* Python string primitives                                                *)
(***************************************************************************)
\* s[i:] for 0 <= i
SliceFrom(s, i) == SubSeq(s, i + 1, Len(s))

\* s.startswith(p)
StartsWith(s, p) == Len(s) >= Len(p) /\ SubSeq(s, 1, Len(p)) = p

\* s.endswith(p)
EndsWith(s, p) == Len(s) >= Len(p) /\ SubSeq(s, Len(s) - Len(p) + 1, Len(s)) = p

\* s.find(sub): lowest 0-based index of sub in s, or -1
Find(s, sub) ==
    LET hits == {i \in 0..(Len(s) - Len(sub)) : SubSeq(s, i + 1, i + Len(sub)) = sub}
    IN  IF hits = {} THEN -1 ELSE CHOOSE i \in hits : \A j \in hits : i <= j

\* s.split(sep), sep non-empty
RECURSIVE Split(_, _)
Split(s, sep) ==
    LET i == Find(s, sep)
    IN  IF i = -1 THEN <<s>>
        ELSE <<SubSeq(s, 1, i)>> \o Split(SliceFrom(s, i + Len(sep)), sep)

\* sep.join(parts)
RECURSIVE StrJoin(_, _)
StrJoin(sep, parts) ==
    IF parts = <<>> THEN ""
    ELSE IF Len(parts) = 1 THEN parts[1]
    ELSE parts[1] \o sep \o StrJoin(sep, Tail(parts))

\* s.replace(old, new)
Replace(s, old, new) == StrJoin(new, Split(s, old))

\* rf.readlines(): every line keeps its terminating "\n"
RECURSIVE ReadLines(_)
ReadLines(s) ==
    IF s = "" THEN <<>>
    ELSE LET i == Find(s, "\n")
         IN  IF i = -1 THEN <<s>>
             ELSE <<SubSeq(s, 1, i + 1)>> \o ReadLines(SliceFrom(s, i + 1))

Digits == "0123456789"

IsDigit(c) == Find(Digits, c) # -1 /\ Len(c) = 1

IsSpace(c) == c \in {" ", "\t", "\n", "\r"}

\* s.strip()
RECURSIVE Strip(_)
Strip(s) ==
    IF s = "" THEN s
    ELSE IF IsSpace(SubSeq(s, 1, 1)) THEN Strip(SliceFrom(s, 1))
    ELSE IF IsSpace(SubSeq(s, Len(s), Len(s))) THEN Strip(SubSeq(s, 1, Len(s) - 1))
    ELSE s

\* digits, with single underscores allowed between digits
IsDecimal(s) ==
    /\ s # ""
    /\ \A k \in 1..Len(s) :
          LET c == SubSeq(s, k, k)
          IN  \/ IsDigit(c)
              \/ /\ c = "_"
                 /\ 1 < k /\ k < Len(s)
                 /\ IsDigit(SubSeq(s, k - 1, k - 1))
                 /\ IsDigit(SubSeq(s, k + 1, k + 1))

RECURSIVE DecimalValue(_, _)
DecimalValue(s, acc) ==
    IF s = "" THEN acc
    ELSE LET c == SubSeq(s, 1, 1)
         IN  IF c = "_" THEN DecimalValue(SliceFrom(s, 1), acc)
             ELSE DecimalValue(SliceFrom(s, 1), 10 * acc + Find(Digits, c))

\* int(s): [ok |-> FALSE] stands for ValueError
PyInt(s) ==
    LET t    == Strip(s)
        sign == IF t # "" /\ SubSeq(t, 1, 1) \in {"+", "-"} THEN SubSeq(t, 1, 1) ELSE ""
        body == SliceFrom(t, Len(sign))
    IN  IF IsDecimal(body)
        THEN [ok |-> TRUE,
              val |-> IF sign = "-" THEN 0 - DecimalValue(body, 0) ELSE DecimalValue(body, 0)]
        ELSE [ok |-> FALSE, val |-> 0]

\* os.sep
os_sep == "/"

\* os.path.join(a, p) of posixpath
PathJoin(a, p) ==
    IF StartsWith(p, "/") THEN p
    ELSE IF a = "" \/ EndsWith(a, "/") THEN a \o p
    ELSE a \o "/" \o p

(***************************************************************************)
(* The request and the host                                                *)
(***************************************************************************)
source_dir == "/src"

\* relpos = len(source_dir) + 1
relpos == Len(source_dir) + 1

want_suffix == <<".cpp", ".cxx", ".cc", ".c++", ".c", ".tpp", ".txx">>

\* path.endswith(tuple(want_suffix))
HasWantSuffix(path) == \E k \in 1..Len(want_suffix) : EndsWith(path, want_suffix[k])

\* files of the source tree, relative to source_dir, in walk order
RepoFiles == <<"a.cpp", "b.h">>

\* paths and states of the entries of an SCM diff
DiffPaths == {"a.cpp", "b.h", "c.cpp"}

DiffStates == {"add", "mod", "del"}

DiffEntries == {[path |-> p, state |-> st] : p \in DiffPaths, st \in DiffStates}

RECURSIVE SeqsUpTo(_, _)
SeqsUpTo(S, n) ==
    IF n = 0 THEN {<<>>}
    ELSE LET shorter == SeqsUpTo(S, n - 1)
         IN  shorter \cup {Append(q, e) : q \in {r \in shorter : Len(r) = n - 1}, e \in S}

\* every diff of at most MaxDiffs entries
DiffLists == SeqsUpTo(DiffEntries, MaxDiffs)

\* the diffs of the end-to-end runs
ScenarioDiffs ==
    { <<>>,
      <<[path |-> "a.cpp", state |-> "mod"], [path |-> "c.cpp", state |-> "del"]>>,
      <<[path |-> "b.h", state |-> "add"]>> }

RuleIds == {"nullPointer", "missingInclude", "unusedFunction", "noSuchRule"}

RequestedSets == {R \in SUBSET RuleIds : Cardinality(R) <= MaxRequested}

NoMap == [r \in {} |-> ""]

NoCmd == [enable |-> {}, jobs |-> FALSE]

(***************************************************************************)
(* File selection, analyze lines 48-67                                     *)
(***************************************************************************)
\* the state of the entry is not looked at
KeepDiff_AnyState(diff) == HasWantSuffix(diff.path)

\* the condition of the list comprehension of the incremental branch
KeepDiff(diff) == HasWantSuffix(diff.path) /\ diff.state # "del"

\* [os.path.join(source_dir, diff.path).replace(os.sep, "/") for diff in ds if ...]
RECURSIVE IncrementalToscans(_)
IncrementalToscans(ds) ==
    IF ds = <<>> THEN <<>>
    ELSE (IF KeepDiff(Head(ds))
          THEN <<Replace(PathJoin(source_dir, Head(ds).path), os_sep, "/")>>
          ELSE <<>>) \o IncrementalToscans(Tail(ds))

\* PathMgr().get_dir_files(root, suffixes): the files of the tree below root
\* whose name ends with one of the suffixes, as paths below root
RECURSIVE get_dir_files(_, _)
get_dir_files(root, tree) ==
    IF tree = <<>> THEN <<>>
    ELSE (IF HasWantSuffix(Head(tree)) THEN <<PathJoin(root, Head(tree))>> ELSE <<>>)
         \o get_dir_files(root, Tail(tree))

\* [path.replace(os.sep, "/") for path in listing]
FullToscans(listing) == [k \in 1..Len(listing) |-> Replace(listing[k], os_sep, "/")]

\* the subsequence of q at the positions in keep
RECURSIVE Subsequence(_, _, _)
Subsequence(q, keep, k) ==
    IF k > Len(q) THEN <<>>
    ELSE (IF k \in keep THEN <<q[k]>> ELSE <<>>) \o Subsequence(q, keep, k + 1)

\* the source trees: the files of RepoFiles that are present, in walk order
Trees == {Subsequence(RepoFiles, present, 1) : present \in SUBSET (1..Len(RepoFiles))}

\* the empty check is missing
NothingToScan_Never(ts) == FALSE

\* `if not toscans`
NothingToScan(ts) == ts = <<>>

SelectIncremental ==
    /\ pc = "start"
    /\ incr_scan
    /\ diffs' = scm
    /\ toscans' = IncrementalToscans(scm)
    /\ pc' = "selected"
    /\ UNCHANGED <<params_rules, incr_scan, scm, paths_txt, return_code,
                   id_severity_map, rules, procs, cmd, result_exists,
                   result_content, written, scan_result, parser_calls,
                   parser_read, ret, err>>

SelectFullTree ==
    /\ pc = "start"
    /\ ~incr_scan
    /\ \E tree \in Trees : toscans' = FullToscans(get_dir_files(source_dir, tree))
    /\ pc' = "selected"
    /\ UNCHANGED <<params_rules, incr_scan, scm, diffs, paths_txt, return_code,
                   id_severity_map, rules, procs, cmd, result_exists,
                   result_content, written, scan_result, parser_calls,
                   parser_read, ret, err>>

\* FilterPathUtil(params).get_include_files keeps some of the candidates, in
\* order; then the empty check and the manifest
FilterPaths ==
    /\ pc = "selected"
    /\ \E keep \in SUBSET (1..Len(toscans)) :
          LET kept == Subsequence(toscans, keep, 1)
          IN  /\ toscans' = kept
              /\ IF NothingToScan(kept)
                 THEN /\ pc' = "done"
                      /\ ret' = <<>>
                      /\ UNCHANGED paths_txt
                 ELSE /\ pc' = "listed"
                      /\ paths_txt' = StrJoin("\n", kept)
                      /\ UNCHANGED ret
    /\ UNCHANGED <<params_rules, incr_scan, scm, diffs, return_code,
                   id_severity_map, rules, procs, cmd, result_exists,
                   result_content, written, scan_result, parser_calls,
                   parser_read, err>>

(***************************************************************************)
(* Capability negotiation and the scan command, analyze lines 69-76,       *)
(* _get_id_severity_map, _get_needed_visitors, _run_cppcheck lines 124-141 *)
(***************************************************************************)
\* the rule catalogs `cppcheck --errorlist` prints, by installed version
Catalogs ==
    { [r \in {"nullPointer", "missingInclude", "MissingIncludeSystem", "unusedFunction"} |->
          IF r = "nullPointer" THEN "error"
          ELSE IF r = "unusedFunction" THEN "style"
          ELSE "information"],
      [r \in {"nullPointer", "unusedFunction"} |->
          IF r = "nullPointer" THEN "error" ELSE "style"] }

\* the exit code is not looked at
CatalogFailed_Never(code) == FALSE

\* `if return_code != 0`
CatalogFailed(code) == code # 0

\* the requested rules are passed on as they are
NegotiateRules_Identity(requested, supported_rules) == requested

\* filtered_rules = [r for r in rules if r not in supported_rules]
\* rules = list(set(rules) - set(filtered_rules))
NegotiateRules(requested, supported_rules) ==
    LET filtered_rules == {r \in requested : r \notin supported_rules}
    IN  requested \ filtered_rules

\* _get_needed_visitors; a rule missing from the map is a KeyError
VisitorsKeyError(map, rule_list) == \E r \in rule_list : r \notin DOMAIN map

_get_needed_visitors(map, rule_list) == {map[r] : r \in rule_list} \ {"error"}

\* the --enable and -j flags of the scan command line
ScanCmd(map, rule_list) ==
    IF rule_list = {}
    THEN [enable |-> {"warning", "style", "information"}, jobs |-> TRUE]
    ELSE [enable |-> _get_needed_visitors(map, rule_list),
          jobs   |-> "unusedFunction" \notin rule_list]

\* analyze from _get_id_severity_map() up to the start of the scan process
GetIdSeverityMap ==
    /\ pc = "listed"
    /\ \E code \in {0, 1}, catalog \in Catalogs :
          /\ return_code' = code
          /\ IF CatalogFailed(code)
             THEN /\ procs' = Append(procs, "errorlist")
                  /\ pc' = "error"
                  /\ err' = "ConfigError"
                  /\ UNCHANGED <<id_severity_map, rules, cmd>>
             ELSE LET negotiated == NegotiateRules(rules, DOMAIN catalog)
                  IN  /\ id_severity_map' = catalog
                      /\ rules' = negotiated
                      /\ IF VisitorsKeyError(catalog, negotiated)
                         THEN /\ procs' = Append(procs, "errorlist")
                              /\ pc' = "error"
                              /\ err' = "KeyError"
                              /\ UNCHANGED cmd
                         ELSE /\ procs' = procs \o <<"errorlist", "scan">>
                              /\ cmd' = ScanCmd(catalog, negotiated)
                              /\ pc' = "running"
                              /\ UNCHANGED err
    /\ UNCHANGED <<params_rules, incr_scan, scm, diffs, toscans, paths_txt,
                   result_exists, result_content, written, scan_result,
                   parser_calls, parser_read, ret>>

(***************************************************************************)
(* The scan process, _run_cppcheck lines 156-162 and _error_callback       *)
(***************************************************************************)
CODEDOG == "[CODEDOG]"

\* one record of --template="{file}[CODEDOG]{line}[CODEDOG]{id}[CODEDOG]{severity}[CODEDOG]{message}"
Record(file, line, id, severity, message) ==
    file \o CODEDOG \o line \o CODEDOG \o id \o CODEDOG \o severity \o CODEDOG \o message \o "\n"

error_msg == "/bin/sh: warning: setlocale: LC_ALL: cannot change locale (en_US.UTF-8)\n"

\* the lines the scan may write to its stderr
ScanLines ==
    { Record("/src/a.cpp", "12", "nullPointer", "error", "Null pointer dereference"),
      Record("/src/a.cpp", "3", "missingInclude", "information", "not found"),
      Record("/src/c.cpp", "4", "MissingIncludeSystem", "information", "not found"),
      Record("/src/a.cpp", "1x", "nullPointer", "error", "Null pointer dereference"),
      Record("/src/a.cpp", "", "nullPointer", "error", "Null pointer dereference"),
      "/src/a.cpp" \o CODEDOG \o "5" \o CODEDOG \o "unusedFunction" \o CODEDOG \o "style\n",
      error_msg,
      "cppcheck: The command line is too long\n" }

\* _error_callback raises AnalyzeTaskError
ErrorCallbackRaises(line) == Find(line, "The command line is too long") # -1

\* the result file is created for the stderr of the scan
ScanOpenResult ==
    /\ pc = "running"
    /\ ~result_exists
    /\ result_exists' = TRUE
    /\ result_content' = ""
    /\ UNCHANGED <<pc, params_rules, incr_scan, scm, diffs, toscans, paths_txt,
                   return_code, id_severity_map, rules, procs, cmd, written,
                   scan_result, parser_calls, parser_read, ret, err>>

\* the scan writes one line to stderr: it goes to the result file and to
\* _error_callback, whose exception ends the run
ScanWriteLine ==
    /\ pc = "running"
    /\ result_exists
    /\ written < MaxLines
    /\ \E line \in ScanLines :
          /\ result_content' = result_content \o line
          /\ written' = written + 1
          /\ IF ErrorCallbackRaises(line)
             THEN pc' = "error" /\ err' = "AnalyzeTaskError"
             ELSE UNCHANGED <<pc, err>>
    /\ UNCHANGED <<params_rules, incr_scan, scm, diffs, toscans, paths_txt,
                   return_code, id_severity_map, rules, procs, cmd,
                   result_exists, scan_result, parser_calls, parser_read, ret>>

(***************************************************************************)
(* After the scan: _run_cppcheck lines 163-181, analyze lines 78-83 and    *)
(* _format_result                                                          *)
(***************************************************************************)
\* lines 175-177: the preamble is cut from the local copy of the content
StripPreamble(content) ==
    IF StartsWith(content, error_msg) THEN SliceFrom(content, Len(error_msg)) ELSE content

\* the local scan_result when _run_cppcheck returns
LocalScanResult(exists, content) ==
    IF ~exists THEN ""
    ELSE IF content = "" THEN content
    ELSE StripPreamble(content)

\* the existence of the result file is not looked at
ResultMissing_Never(exists) == FALSE

\* analyze line 78: `if not os.path.exists(scan_result_path)`
ResultMissing(exists) == ~exists

\* one id of the denylist is missing
Denylisted_SystemOnly(rule) == rule \in {"MissingIncludeSystem"}

\* `rule in ["missingInclude", "MissingIncludeSystem"]`
Denylisted(rule) == rule \in {"missingInclude", "MissingIncludeSystem"}

\* the discard applies only to a non-empty rule list
Unrequested_IfExplicit(rule, rule_list) == rule_list # {} /\ rule \notin rule_list

\* `rule not in rules`
Unrequested(rule, rule_list) == rule \notin rule_list

NoIssue == [path |-> "", line |-> 0, column |-> "1", msg |-> "", rule |-> ""]

\* the body of the loop of _format_result for one line
FormatLine(line, rule_list, supported_rules) ==
    LET error == Split(line, CODEDOG)
    IN  IF Len(error) # 5 THEN [kind |-> "continue", issue |-> NoIssue]
        ELSE IF \E k \in 1..Len(error) : error[k] = "" THEN [kind |-> "continue", issue |-> NoIssue]
        ELSE LET rule == error[3]
             IN  IF rule \notin supported_rules THEN [kind |-> "continue", issue |-> NoIssue]
                 ELSE IF Denylisted(rule) THEN [kind |-> "continue", issue |-> NoIssue]
                 ELSE IF Unrequested(rule, rule_list) THEN [kind |-> "continue", issue |-> NoIssue]
                 ELSE IF ~PyInt(error[2]).ok THEN [kind |-> "ValueError", issue |-> NoIssue]
                 ELSE [kind  |-> "append",
                       issue |-> [path   |-> SliceFrom(error[1], relpos),
                                  line   |-> PyInt(error[2]).val,
                                  column |-> "1",
                                  msg    |-> error[5],
                                  rule   |-> rule]]

RECURSIVE FormatLines(_, _, _, _)
FormatLines(lines, rule_list, supported_rules, issues) ==
    IF lines = <<>> THEN [raised |-> FALSE, issues |-> issues]
    ELSE LET r == FormatLine(Head(lines), rule_list, supported_rules)
         IN  IF r.kind = "ValueError" THEN [raised |-> TRUE, issues |-> <<>>]
             ELSE FormatLines(Tail(lines), rule_list, supported_rules,
                              IF r.kind = "append" THEN Append(issues, r.issue) ELSE issues)

\* _format_result on the content of the result file
_format_result(content, rule_list, supported_rules) ==
    FormatLines(ReadLines(content), rule_list, supported_rules, <<>>)

\* the scan process ends: the rest of _run_cppcheck, then analyze to its end
ScanExit ==
    /\ pc = "running"
    /\ scan_result' = LocalScanResult(result_exists, result_content)
    /\ IF ResultMissing(result_exists)
       THEN /\ pc' = "done"
            /\ ret' = <<>>
            /\ UNCHANGED <<parser_calls, parser_read, err>>
       ELSE /\ parser_calls' = parser_calls + 1
            /\ IF ~result_exists
               THEN /\ pc' = "error"
                    /\ err' = "FileNotFoundError"
                    /\ UNCHANGED <<parser_read, ret>>
               ELSE LET r == _format_result(result_content, rules, DOMAIN id_severity_map)
                    IN  /\ parser_read' = result_content
                        /\ IF r.raised
                           THEN pc' = "error" /\ err' = "ValueError" /\ UNCHANGED ret
                           ELSE pc' = "done" /\ ret' = r.issues /\ UNCHANGED err
    /\ UNCHANGED <<params_rules, incr_scan, scm, diffs, toscans, paths_txt,
                   return_code, id_severity_map, rules, procs, cmd,
                   result_exists, result_content, written>>

(***************************************************************************)
(* Specifications                                                          *)
(***************************************************************************)
InitWith(scmDiffs) ==
    /\ pc = "start"
    /\ params_rules \in RequestedSets
    /\ incr_scan \in BOOLEAN
    /\ scm \in (IF incr_scan THEN scmDiffs ELSE {<<>>})
    /\ diffs = <<>>
    /\ toscans = <<>>
    /\ paths_txt = ""
    /\ return_code = 0
    /\ id_severity_map = NoMap
    /\ rules = params_rules
    /\ procs = <<>>
    /\ cmd = NoCmd
    /\ result_exists = FALSE
    /\ result_content = ""
    /\ written = 0
    /\ scan_result = ""
    /\ parser_calls = 0
    /\ parser_read = ""
    /\ ret = <<>>
    /\ err = "none"

\* one invocation of analyze, on the diffs of the end-to-end runs
Init == InitWith(ScenarioDiffs)

Next ==
    \/ SelectIncremental
    \/ SelectFullTree
    \/ FilterPaths
    \/ GetIdSeverityMap
    \/ ScanOpenResult
    \/ ScanWriteLine
    \/ ScanExit

Spec == Init /\ [][Next]_vars

\* the file selection alone, on every diff of at most MaxDiffs entries
InitSelect == InitWith(DiffLists) /\ params_rules = {}

NextSelect ==
    \/ SelectIncremental
    \/ SelectFullTree
    \/ FilterPaths

SpecSelect == InitSelect /\ [][NextSelect]_vars

(***************************************************************************)
(* Properties                                                              *)
(***************************************************************************)
Supported == DOMAIN id_severity_map

ScanStarted == \E k \in 1..Len(procs) : procs[k] = "scan"

ErrorlistStarted == \E k \in 1..Len(procs) : procs[k] = "errorlist"

BroadDefault == [enable |-> {"warning", "style", "information"}, jobs |-> TRUE]

DenylistedIds == {"missingInclude", "MissingIncludeSystem"}

\* a raw line with exactly 5 non-empty fields whose rule id is in the catalog
\* and not denylisted
Qualifies(line, supported_rules) ==
    LET fields == Split(line, CODEDOG)
    IN  /\ Len(fields) = 5
        /\ \A k \in 1..5 : fields[k] # ""
        /\ fields[3] \in supported_rules \ DenylistedIds

QualifyingLines(content, supported_rules) ==
    LET lines == ReadLines(content)
    IN  Cardinality({k \in 1..Len(lines) : Qualifies(lines[k], supported_rules)})

\* C1: when no rules are requested and analyze returns after parsing, it
\* returns exactly one issue for every raw line that has 5 non-empty fields
\* and a supported, non-denylisted rule id.
C1_BroadScanEmitsEveryQualifyingLine ==
    (pc = "done" /\ params_rules = {} /\ parser_calls > 0)
        => Len(ret) = QualifyingLines(result_content, Supported)

\* C2: no returned issue has rule id missingInclude or MissingIncludeSystem,
\* whatever was requested, supported or written by the tool.
C2_NoDenylistedIssue ==
    \A k \in 1..Len(ret) : ret[k].rule \notin DenylistedIds

\* a denylisted id was requested, is in the catalog, the raw output has a
\* well-formed line for it next to a line that became an issue
C2_Witness ==
    /\ pc = "done"
    /\ parser_calls > 0
    /\ "missingInclude" \in params_rules \cap Supported
    /\ Find(result_content, CODEDOG \o "missingInclude" \o CODEDOG) # -1
    /\ ret # <<>>

\* C3: once the scan is started the rule set in use is exactly the requested
\* rules that are in the catalog, an unsupported requested rule raises
\* nothing (the scan is started whenever the catalog call succeeded), and an
\* empty request enables the broad default categories.
C3_NegotiatedIsIntersection ==
    /\ ScanStarted => rules = params_rules \cap Supported
    /\ (ErrorlistStarted /\ return_code = 0) => ScanStarted
    /\ err # "KeyError"
    /\ (ScanStarted /\ params_rules = {}) => cmd = BroadDefault

\* a requested rule outside the catalog was dropped and others were kept
C3_Witness ==
    /\ ScanStarted
    /\ params_rules \ Supported # {}
    /\ rules # {}

\* C4: when the candidate list is empty after the path filter, analyze has
\* returned an empty sequence without error and no subprocess was started.
C4_EmptySelectionStartsNothing ==
    (pc \notin {"start", "selected"} /\ toscans = <<>>)
        => (pc = "done" /\ ret = <<>> /\ err = "none" /\ procs = <<>>)

\* the diff had a candidate and the path filter removed it
C4_Witness ==
    /\ pc = "done"
    /\ toscans = <<>>
    /\ incr_scan
    /\ \E k \in 1..Len(diffs) : KeepDiff(diffs[k])

\* C5: when the scan has ended and the result file does not exist, analyze
\* has returned an empty sequence, without error and without calling the
\* parser.
C5_MissingResultIsEmpty ==
    (ScanStarted /\ pc # "running" /\ ~result_exists)
        => (pc = "done" /\ ret = <<>> /\ err = "none" /\ parser_calls = 0)

C5_Witness == ScanStarted /\ pc = "done" /\ ~result_exists

\* the diff entries the incremental selection keeps
KeptEntries == {i \in 1..Len(diffs) : diffs[i].state # "del" /\ HasWantSuffix(diffs[i].path)}

\* C6: in incremental mode the candidate list handed to the path filter is
\* the non-deleted entries with an allowed suffix, in diff order, each below
\* the source root; when the diff names every path once, no path of a
\* deleted entry is in it.
C6_IncrementalSkipsDeleted ==
    (pc = "selected" /\ incr_scan) =>
        /\ diffs = scm
        /\ Len(toscans) = Cardinality(KeptEntries)
        /\ \A i \in KeptEntries :
              toscans[Cardinality({j \in KeptEntries : j <= i})] = source_dir \o "/" \o diffs[i].path
        /\ (\A i, j \in 1..Len(diffs) : diffs[i].path = diffs[j].path => i = j)
              => \A i \in 1..Len(diffs), k \in 1..Len(toscans) :
                    diffs[i].state = "del" => toscans[k] # source_dir \o "/" \o diffs[i].path

\* a deleted source file stands in the diff next to one that is selected
C6_Witness ==
    /\ pc = "selected"
    /\ incr_scan
    /\ toscans # <<>>
    /\ \E i \in 1..Len(diffs) : diffs[i].state = "del" /\ HasWantSuffix(diffs[i].path)

\* C7: when the catalog call exits with a non-zero code, analyze has left
\* with a ConfigError: no scan was started, the parser did not run and
\* nothing was returned.
C7_CatalogFailureIsFatal ==
    (ErrorlistStarted /\ return_code # 0)
        => (pc = "error" /\ err = "ConfigError" /\ ~ScanStarted /\ parser_calls = 0)

C7_Witness == ErrorlistStarted /\ return_code # 0 /\ err = "ConfigError"

\* C8: the parser raises nothing, whatever the result file holds: once it
\* has been called, analyze has returned.
C8_ParserNeverRaises ==
    parser_calls > 0 => (pc = "done" /\ err = "none")

\* C9: the content the parser splits into lines does not begin with the
\* locale preamble.
C9_PreambleStrippedBeforeParsing ==
    parser_calls > 0 => ~StartsWith(parser_read, error_msg)

====
